---- MODULE Spec2Model ----
(***************************************************************************)
(* Model of src/src/examples/optimized_function.py: the raising entry      *)
(* point optimized_example_function ("transform"), the wrapper             *)
(* safe_example_function ("safeTransform") and batch_process_values        *)
(* ("batchTransform").                                                     *)
(*                                                                         *)
(* Python integers are unbounded, and the interesting thresholds (10^15,   *)
(* 10^6, 2^63-1, 2^1024, 4300 digits) do not fit a machine word, so a      *)
(* number is kept exactly as a decimal  m * 10^e  with a small mantissa.   *)
(* Every Python value is a record with a "type" field holding the name of  *)
(* its class.                                                              *)
(***************************************************************************)
EXTENDS Integers, Sequences, FiniteSets

\* ------------------------------------------------------------ bounds

\* Longest list handed to batch_process_values.
MaxBatchLen == 3

\* ----------------------------------------------------------- numbers

Abs(n) == IF n < 0 THEN -n ELSE n

RECURSIVE Digits(_)
\* Number of decimal digits of a natural number (Digits(0) = 1).
Digits(n) == IF n < 10 THEN 1 ELSE 1 + Digits(n \div 10)

RECURSIVE Norm(_, _)
\* The normal form of m * 10^e: the mantissa carries no factor of ten.
Norm(m, e) ==
    IF m = 0 THEN [m |-> 0, e |-> 0]
    ELSE IF m % 10 = 0 THEN Norm(m \div 10, e + 1)
    ELSE [m |-> m, e |-> e]

Pow10(k) == [m |-> 1, e |-> k]

Zero == [m |-> 0, e |-> 0]

\* Exact product of two decimals.
NumMul(a, b) == Norm(a.m * b.m, a.e + b.e)

\* Number of decimal digits of the integer |a| (a.e >= 0).
NumDigits(a) == IF a.m = 0 THEN 1 ELSE Digits(Abs(a.m)) + a.e

\* |a| > 10^k, for an integer a in normal form.
AbsGreaterPow10(a, k) ==
    /\ a.m # 0
    /\ \/ NumDigits(a) > k + 1
       \/ NumDigits(a) = k + 1 /\ Abs(a.m) # 1

\* The three leading digits of |a| (mantissas of the model stay below 1000).
Lead3(a) ==
    LET d == Digits(Abs(a.m))
    IN  IF d = 1 THEN Abs(a.m) * 100 ELSE IF d = 2 THEN Abs(a.m) * 10 ELSE Abs(a.m)

\* |a| > T, where T has nd digits, begins with the digits p3 and is no
\* multiple of 10^(nd-3).
AbsGreaterThan(a, p3, nd) ==
    /\ a.m # 0
    /\ \/ NumDigits(a) > nd
       \/ NumDigits(a) = nd /\ Lead3(a) > p3

\* ------------------------------------------------------- Python values

IntVal(m, e)   == [type |-> "int", num |-> Norm(m, e)]
\* A float is finite (its decimal value is num) or the infinity.
FloatVal(m, e) == [type |-> "float", num |-> Norm(m, e), inf |-> FALSE]
FloatInf(sign) == [type |-> "float", num |-> [m |-> sign, e |-> 0], inf |-> TRUE]
\* A text is `unit` written `reps` times; the empty text has reps 0.
StrVal(u, r)   == [type |-> "str", unit |-> u, reps |-> r]
EmptyStr       == StrVal(<<>>, Zero)
NoneVal        == [type |-> "NoneType"]
ListVal(items) == [type |-> "list", items |-> items]
TupleVal(items) == [type |-> "tuple", items |-> items]
DictVal        == [type |-> "dict", items |-> <<>>]
\* An instance of a user class whose __str__ raises.
Unprintable    == [type |-> "Unprintable"]

IsNone(x) == x.type = "NoneType"

\* The outcome of a call: a returned value or a raised exception.
Ret(v)      == [raised |-> FALSE, val |-> v, cls |-> "", msg |-> ""]
Raise(c, m) == [raised |-> TRUE, val |-> NoneVal, cls |-> c, msg |-> m]

\* A log record of the module's logger.
LogRec(level, what) == [level |-> level, what |-> what]

\* ------------------------------------------------- the Python runtime

\* The runtime's limits: the int <-> str conversion limit (0: none; 4300 is
\* CPython's default) and the power of ten of the number of characters an
\* allocation can hold.
Environments ==
    [maxStrDigits : {0, 4300}, memExp : {9, 18}]

\* sys.maxsize = 2^63 - 1 = 9223372036854775807 (19 digits).
ExceedsMaxSize(a) == a.m > 0 /\ AbsGreaterThan(a, 922, 19)

\* |a| >= 2^1024 = 1.797...e308 (309 digits): too large for a float.
ExceedsFloat(a) == AbsGreaterThan(a, 179, 309)

\* Formatting an int as decimal text fails past the digit limit.
IntStrFails(a, environ) ==
    environ.maxStrDigits > 0 /\ NumDigits(a) > environ.maxStrDigits

IntStrError ==
    Raise("ValueError", "Exceeds the limit for integer string conversion")

\* len(s) of a text.
StrLen(s) == NumMul([m |-> Len(s.unit), e |-> 0], s.reps)

\* Number of characters of repr(x) for a finite float: the shortest
\* decimal form, scientific from 1e16 on.
FloatStrLen(x) ==
    LET d    == Digits(Abs(x.num.m))
        sign == IF x.num.m < 0 THEN 1 ELSE 0
    IN  IF x.inf THEN 3 + sign
        ELSE IF x.num.e < 0 THEN sign + (IF d > -x.num.e THEN d + 1 ELSE 2 - x.num.e)
        ELSE IF d + x.num.e > 16
             THEN sign + d + (IF d > 1 THEN 1 ELSE 0) + 2 + Digits(d + x.num.e - 1)
        ELSE sign + d + x.num.e + 2

\* Number of characters of a small list of small ints: "[1, 2, 3]".
ListStrLen(x) == IF Len(x.items) = 0 THEN 2 ELSE 3 * Len(x.items)

Min(a, b) == IF a <= b THEN a ELSE b

\* The machine integer of a decimal of at most three digits.
SmallInt(a) == IF a.e = 0 THEN a.m ELSE IF a.e = 1 THEN a.m * 10 ELSE a.m * 100

\* len(str(x)[:100]), or the exception str(x) raises.
PreviewOf(x, environ) ==
    CASE x.type = "int" ->
            IF IntStrFails(x.num, environ) THEN IntStrError
            ELSE Ret(Min(100, NumDigits(x.num) + (IF x.num.m < 0 THEN 1 ELSE 0)))
      [] x.type = "float"    -> Ret(FloatStrLen(x))
      [] x.type = "str"      ->
            Ret(IF NumDigits(StrLen(x)) > 3 THEN 100 ELSE Min(100, SmallInt(StrLen(x))))
      [] x.type = "NoneType" -> Ret(4)
      [] x.type = "list"     -> Ret(ListStrLen(x))
      [] x.type = "dict"     -> Ret(2)
      [] OTHER               -> Raise("RuntimeError", "__str__ failed")

\* multiplier < 0: defined between numbers only.
LessThanZero(f) ==
    IF f.type = "int" THEN Ret(f.num.m < 0)
    ELSE Raise("TypeError", "'<' not supported between instances")

\* int * int.
IntTimes(v, f) == [type |-> "int", num |-> NumMul(v.num, f.num)]

\* float * int: the int is converted to a float first, which fails from
\* 2^1024 on; a product past the float range is the infinity.
FloatTimes(v, f) ==
    IF ExceedsFloat(f.num) THEN Raise("OverflowError", "int too large to convert to float")
    ELSE IF v.inf THEN Ret(FloatInf(v.num.m))
    ELSE LET p == NumMul(v.num, f.num)
         IN  IF p.m # 0 /\ p.e >= 0 /\ ExceedsFloat(p)
             THEN Ret(FloatInf(IF p.m < 0 THEN -1 ELSE 1))
             ELSE Ret([type |-> "float", num |-> p, inf |-> FALSE])

\* str * int: the count must fit an index, the length must fit an index,
\* and the allocation must succeed.
StrTimes(s, f, environ) ==
    LET n == NumMul(StrLen(s), f.num)
    IN  IF ExceedsMaxSize(f.num)
        THEN Raise("OverflowError", "cannot fit 'int' into an index-sized integer")
        ELSE IF f.num.m <= 0 \/ StrLen(s).m = 0 THEN Ret(EmptyStr)
        ELSE IF ExceedsMaxSize(n) THEN Raise("OverflowError", "repeated string is too long")
        ELSE IF AbsGreaterPow10(n, environ.memExp) THEN Raise("MemoryError", "")
        ELSE Ret(StrVal(s.unit, NumMul(s.reps, f.num)))

\* ------------------------------------------------ optimized_function.py

\* The result of a function: its outcome and the log records it emitted.
Res(out, log) == [out |-> out, log |-> log]

\* 10**15 and 10**6, the advisory limits, as powers of ten.
BigResultExp == 15
BigStringExp == 6

\* _process_numeric_value(value, multiplier)
process_numeric_value(value, multiplier, environ) ==
    LET prod == IF value.type = "int" THEN Ret(IntTimes(value, multiplier))
                ELSE FloatTimes(value, multiplier)
    IN  IF prod.raised
        THEN \* except OverflowError: logged and raised again
             Res(prod, <<LogRec("ERROR", "Overflow error in numeric processing")>>)
        ELSE IF value.type = "int" /\ prod.val.type = "int"
                /\ AbsGreaterPow10(prod.val.num, BigResultExp)
        THEN \* the f-string formats the result before the record is logged
             IF IntStrFails(prod.val.num, environ) THEN Res(IntStrError, <<>>)
             ELSE Res(prod, <<LogRec("WARNING", "Result is very large")>>)
        ELSE Res(prod, <<>>)

\* _process_string_value(value, multiplier)
process_string_value(value, multiplier, environ) ==
    LET n == NumMul(StrLen(value), multiplier.num)
    IN  IF multiplier.num.m = 0 THEN Res(Ret(EmptyStr), <<>>)
        ELSE IF AbsGreaterPow10(n, BigStringExp) /\ n.m > 0
        THEN IF IntStrFails(n, environ) THEN Res(IntStrError, <<>>)
             ELSE Res(StrTimes(value, multiplier, environ),
                      <<LogRec("WARNING", "String multiplication would create a very large string")>>)
        ELSE Res(StrTimes(value, multiplier, environ), <<>>)

InvalidFactor   == Raise("ValueError", "Multiplier must be non-negative")
UnsupportedType == Raise("TypeError", "Unsupported type")

\* Mutant: the kind of the value is checked before the sign of the factor.
optimized_example_function_KindFirst(input_value, multiplier, environ) ==
    LET neg == LessThanZero(multiplier)
    IN  IF input_value.type \notin {"int", "float", "str"} THEN Res(UnsupportedType, <<>>)
        ELSE IF neg.raised THEN Res(neg, <<>>)
        ELSE IF neg.val THEN Res(InvalidFactor, <<>>)
        ELSE IF input_value.type \in {"int", "float"}
        THEN process_numeric_value(input_value, multiplier, environ)
        ELSE process_string_value(input_value, multiplier, environ)

\* optimized_example_function(input_value, multiplier)
optimized_example_function(input_value, multiplier, environ) ==
    LET neg == LessThanZero(multiplier)
    IN  IF neg.raised THEN Res(neg, <<>>)
        ELSE IF neg.val THEN Res(InvalidFactor, <<>>)
        ELSE IF input_value.type \in {"int", "float"}
        THEN process_numeric_value(input_value, multiplier, environ)
        ELSE IF input_value.type = "str"
        THEN process_string_value(input_value, multiplier, environ)
        ELSE Res(UnsupportedType, <<>>)

\* The dict safe_example_function returns.
ResultInfo(success, result, error, input_value, preview, multiplier) ==
    [type |-> "dict", success |-> success, result |-> result, error |-> error,
     type_info |-> [input_type |-> input_value.type, input_value |-> preview,
                    multiplier |-> multiplier]]

ErrorInfo(cls, msg) == [type |-> cls, message |-> msg]

\* The exceptions of the first except clause.
ExpectedErrors == {"TypeError", "ValueError", "OverflowError"}

\* Mutant: the success branch stores the result and leaves 'success' False.
safe_example_function_FlagNotSet(input_value, multiplier, environ) ==
    LET preview == PreviewOf(input_value, environ)
        r       == optimized_example_function(input_value, multiplier, environ)
    IN  IF preview.raised THEN Res(preview, <<>>)
        ELSE IF ~r.out.raised
        THEN Res(Ret(ResultInfo(FALSE, r.out.val, NoneVal,
                                input_value, preview.val, multiplier)), r.log)
        ELSE IF r.out.cls \in ExpectedErrors
        THEN Res(Ret(ResultInfo(FALSE, NoneVal, ErrorInfo(r.out.cls, r.out.msg),
                                input_value, preview.val, multiplier)), r.log)
        ELSE Res(Ret(ResultInfo(FALSE, NoneVal,
                                ErrorInfo("UnexpectedError", "An unexpected error occurred"),
                                input_value, preview.val, multiplier)),
                 r.log \o <<LogRec("ERROR", "Unexpected error in safe_example_function")>>)

\* Mutant: the last except clause reports the exception's own class and message.
safe_example_function_Leaks(input_value, multiplier, environ) ==
    LET preview == PreviewOf(input_value, environ)
        r       == optimized_example_function(input_value, multiplier, environ)
    IN  IF preview.raised THEN Res(preview, <<>>)
        ELSE IF ~r.out.raised
        THEN Res(Ret(ResultInfo(TRUE, r.out.val, NoneVal,
                                input_value, preview.val, multiplier)), r.log)
        ELSE Res(Ret(ResultInfo(FALSE, NoneVal, ErrorInfo(r.out.cls, r.out.msg),
                                input_value, preview.val, multiplier)),
                 IF r.out.cls \in ExpectedErrors THEN r.log
                 ELSE r.log \o <<LogRec("ERROR", "Unexpected error in safe_example_function")>>)

\* safe_example_function(input_value, multiplier)
safe_example_function(input_value, multiplier, environ) ==
    LET preview == PreviewOf(input_value, environ)
        r       == optimized_example_function(input_value, multiplier, environ)
    IN  IF preview.raised
        THEN \* str(input_value) is evaluated outside the try block
             Res(preview, <<>>)
        ELSE IF ~r.out.raised
        THEN Res(Ret(ResultInfo(TRUE, r.out.val, NoneVal,
                                input_value, preview.val, multiplier)), r.log)
        ELSE IF r.out.cls \in ExpectedErrors
        THEN Res(Ret(ResultInfo(FALSE, NoneVal, ErrorInfo(r.out.cls, r.out.msg),
                                input_value, preview.val, multiplier)), r.log)
        ELSE Res(Ret(ResultInfo(FALSE, NoneVal,
                                ErrorInfo("UnexpectedError", "An unexpected error occurred"),
                                input_value, preview.val, multiplier)),
                 r.log \o <<LogRec("ERROR", "Unexpected error in safe_example_function")>>)

\* batch_process_values: the partition of the positions of `values` by kind
\* (positions count from 1 here, from 0 in the source).
RECURSIVE GroupOf(_, _, _)
GroupOf(values, kinds, i) ==
    IF i > Len(values) THEN <<>>
    ELSE (IF values[i].type \in kinds THEN <<[i |-> i, value |-> values[i]]>> ELSE <<>>)
         \o GroupOf(values, kinds, i + 1)

NumericKinds == {"int", "float"}
StringKinds  == {"str"}
AllKinds     == {"int", "float", "str", "NoneType", "list", "dict", "tuple", "Unprintable"}
OtherKinds   == AllKinds \ (NumericKinds \cup StringKinds)

\* --------------------------------------------------------------- inputs

IntInputs ==
    {IntVal(0, 0), IntVal(5, 0), IntVal(-3, 0), IntVal(1, 15),
     IntVal(1, 4299), IntVal(1, 4300)}
FloatInputs == {FloatVal(25, -1), FloatVal(1, 308)}
StrInputs   == {EmptyStr, StrVal(<<"a", "b">>, Pow10(0)), StrVal(<<"a">>, Pow10(3))}
OtherInputs ==
    {NoneVal, ListVal(<<IntVal(1, 0), IntVal(2, 0), IntVal(3, 0)>>), DictVal, Unprintable}
Values == IntInputs \cup FloatInputs \cup StrInputs \cup OtherInputs

\* Factors: negative, zero, small, at and past each limit, and malformed.
IntFactors ==
    {IntVal(-1, 0), IntVal(0, 0), IntVal(1, 0), IntVal(2, 0), IntVal(3, 0),
     IntVal(1, 6), IntVal(1, 15), IntVal(1, 19), IntVal(1, 309), IntVal(1, 4300)}
Factors == IntFactors \cup {NoneVal, StrVal(<<"2">>, Pow10(0))}

BatchElements ==
    {IntVal(5, 0), IntVal(1, 4300), FloatVal(25, -1), StrVal(<<"a", "b">>, Pow10(0)),
     NoneVal, Unprintable}
BatchFactors == {IntVal(-1, 0), IntVal(3, 0), IntVal(1, 309), NoneVal}
BatchLists ==
    UNION {[1..n -> BatchElements] : n \in 0..MaxBatchLen}
\* What a caller may pass as `values`: a list, another sequence, a non-sequence.
BatchArgs ==
    {ListVal(xs) : xs \in BatchLists}
        \cup {TupleVal(<<IntVal(5, 0), FloatVal(25, -1)>>), StrVal(<<"a", "b">>, Pow10(0)),
              NoneVal, DictVal}

\* ---------------------------------------------------------------- state

VARIABLES
    environ,        \* the runtime's limits
    fn,             \* the entry point called
    input_value,    \* its first argument (input_value, or values)
    multiplier,     \* its second argument
    pc,             \* "start", a loop of batch_process_values, or "done"
    numeric_values, \* batch_process_values' locals
    string_values,
    other_values,
    results,
    pos,            \* position in the group being processed
    invoked,        \* positions safe_example_function was called for, in call order
    log,            \* the log records emitted, in order
    outcome         \* what the call returned or raised (meaningful at "done")

vars == <<environ, fn, input_value, multiplier, pc, numeric_values, string_values,
          other_values, results, pos, invoked, log, outcome>>

batchLocals == <<numeric_values, string_values, other_values, results, pos, invoked>>

Init ==
    /\ environ \in Environments
    /\ fn = "none"
    /\ input_value = NoneVal
    /\ multiplier = NoneVal
    /\ pc = "start"
    /\ numeric_values = <<>>
    /\ string_values = <<>>
    /\ other_values = <<>>
    /\ results = <<>>
    /\ pos = 0
    /\ invoked = <<>>
    /\ log = <<>>
    /\ outcome = Ret(NoneVal)

\* A call of optimized_example_function(v, f).
CallTransform ==
    /\ pc = "start"
    /\ \E v \in Values, f \in Factors :
         LET r == optimized_example_function(v, f, environ)
         IN  /\ fn' = "optimized_example_function"
             /\ input_value' = v
             /\ multiplier' = f
             /\ outcome' = r.out
             /\ log' = r.log
    /\ pc' = "done"
    /\ UNCHANGED <<environ, batchLocals>>

\* A call of safe_example_function(v, f).
CallSafe ==
    /\ pc = "start"
    /\ \E v \in Values, f \in Factors :
         LET r == safe_example_function(v, f, environ)
         IN  /\ fn' = "safe_example_function"
             /\ input_value' = v
             /\ multiplier' = f
             /\ outcome' = r.out
             /\ log' = r.log
    /\ pc' = "done"
    /\ UNCHANGED <<environ, batchLocals>>

\* batch_process_values(values, f) up to its first loop: the type check, the
\* partition and the results list.
CallBatch ==
    /\ pc = "start"
    /\ \E values \in BatchArgs, f \in BatchFactors :
         /\ fn' = "batch_process_values"
         /\ input_value' = values
         /\ multiplier' = f
         /\ IF values.type # "list"
            THEN /\ outcome' = Raise("TypeError", "Values must be a list")
                 /\ pc' = "done"
                 /\ UNCHANGED batchLocals
            ELSE /\ numeric_values' = GroupOf(values.items, NumericKinds, 1)
                 /\ string_values' = GroupOf(values.items, StringKinds, 1)
                 /\ other_values' = GroupOf(values.items, OtherKinds, 1)
                 /\ results' = [i \in 1..Len(values.items) |-> NoneVal]
                 /\ pos' = 1
                 /\ invoked' = <<>>
                 /\ pc' = "numeric"
                 /\ UNCHANGED outcome
    /\ UNCHANGED <<environ, log>>

\* One iteration of a loop `for i, value in group: results[i] = safe_example_function(...)`;
\* an exception leaving safe_example_function leaves batch_process_values.
Iterate(group) ==
    LET i == group[pos].i
        r == safe_example_function(group[pos].value, multiplier, environ)
    IN  /\ invoked' = Append(invoked, i)
        /\ log' = log \o r.log
        /\ IF r.out.raised
           THEN /\ outcome' = r.out
                /\ pc' = "done"
                /\ UNCHANGED <<results, pos>>
           ELSE /\ results' = [results EXCEPT ![i] = r.out.val]
                /\ pos' = pos + 1
                /\ UNCHANGED <<outcome, pc>>
        /\ UNCHANGED <<environ, fn, input_value, multiplier,
                       numeric_values, string_values, other_values>>

\* A loop is exhausted: on to the next statement.
Leave(next) ==
    /\ pc' = next
    /\ pos' = 1
    /\ UNCHANGED <<environ, fn, input_value, multiplier, numeric_values, string_values,
                   other_values, results, invoked, log, outcome>>

ProcessNumeric == pc = "numeric" /\ pos <= Len(numeric_values) /\ Iterate(numeric_values)
LeaveNumeric   == pc = "numeric" /\ pos > Len(numeric_values) /\ Leave("string")
ProcessString  == pc = "string" /\ pos <= Len(string_values) /\ Iterate(string_values)
LeaveString    == pc = "string" /\ pos > Len(string_values) /\ Leave("other")
ProcessOther   == pc = "other" /\ pos <= Len(other_values) /\ Iterate(other_values)

\* return results
ReturnResults ==
    /\ pc = "other"
    /\ pos > Len(other_values)
    /\ outcome' = Ret(ListVal(results))
    /\ pc' = "done"
    /\ UNCHANGED <<environ, fn, input_value, multiplier, batchLocals, log>>

Next ==
    \/ CallTransform
    \/ CallSafe
    \/ CallBatch
    \/ ProcessNumeric
    \/ LeaveNumeric
    \/ ProcessString
    \/ LeaveString
    \/ ProcessOther
    \/ ReturnResults

Spec == Init /\ [][Next]_vars

\* ------------------------------------------------------------ properties

Done == pc = "done"
TransformDone == Done /\ fn = "optimized_example_function"
SafeDone      == Done /\ fn = "safe_example_function"
BatchDone     == Done /\ fn = "batch_process_values"

\* The call returned a SafeResult record.
ReturnedRecord == ~outcome.raised /\ outcome.val.type = "dict"

IsIntFactor(f)   == f.type = "int"
NonNegative(f)   == f.type = "int" /\ f.num.m >= 0
SupportedKinds   == {"int", "float", "str"}

\* What optimized_example_function does on the arguments of the current call.
TransformHere == optimized_example_function(input_value, multiplier, environ).out

\* C1: safe_example_function never raises: whatever the value and the factor,
\* the call returns a SafeResult record.
SafeNeverRaises == SafeDone => ReturnedRecord

\* C2: safe_example_function(v, f) reports success exactly when
\* optimized_example_function(v, f) does not fail, and then carries the value
\* optimized_example_function returns.
SafeSucceedsIffTransformSucceeds ==
    SafeDone =>
        /\ (ReturnedRecord /\ outcome.val.success) <=> ~TransformHere.raised
        /\ (ReturnedRecord /\ outcome.val.success) => outcome.val.result = TransformHere.val

\* (C2, for the calls that return) a returned record reports success exactly
\* when optimized_example_function does not fail, with the same value.
ReturnedRecordAgreesWithTransform ==
    (SafeDone /\ ReturnedRecord) =>
        /\ outcome.val.success <=> ~TransformHere.raised
        /\ outcome.val.success => outcome.val.result = TransformHere.val

\* What safe_example_function returns for element i of the list of the
\* current batch call.
SafeAt(i) == safe_example_function(input_value.items[i], multiplier, environ).out

\* C3: for every list, batch_process_values returns a list of the same length
\* whose entry at each position is what safe_example_function returns for the
\* element at that position.
BatchMatchesSafe ==
    (BatchDone /\ input_value.type = "list") =>
        /\ ~outcome.raised
        /\ Len(outcome.val.items) = Len(input_value.items)
        /\ \A i \in 1..Len(input_value.items) :
             ~SafeAt(i).raised /\ outcome.val.items[i] = SafeAt(i).val

\* (C3, for the calls that return) a returned list has the length of the
\* input and the entry of safe_example_function at each position.
ReturnedBatchMatchesSafe ==
    (BatchDone /\ ~outcome.raised) =>
        /\ Len(outcome.val.items) = Len(input_value.items)
        /\ \A i \in 1..Len(input_value.items) :
             ~SafeAt(i).raised /\ outcome.val.items[i] = SafeAt(i).val

\* C4: the factor is checked before the kind of the value: a negative factor
\* fails with InvalidFactor whatever the value, a non-negative factor with an
\* unsupported value fails with UnsupportedType, and a non-negative factor with
\* an int, float or str value fails with neither.
FactorCheckedBeforeKind ==
    (TransformDone /\ IsIntFactor(multiplier)) =>
        /\ multiplier.num.m < 0 => outcome = InvalidFactor
        /\ (multiplier.num.m >= 0 /\ input_value.type \notin SupportedKinds)
              => outcome = UnsupportedType
        /\ (multiplier.num.m >= 0 /\ input_value.type \in SupportedKinds)
              => outcome \notin {InvalidFactor, UnsupportedType}

\* C4 witness: a negative factor with a value of an unsupported kind.
NegativeFactorUnsupportedValue ==
    /\ TransformDone
    /\ IsIntFactor(multiplier) /\ multiplier.num.m < 0
    /\ input_value.type = "list"
    /\ outcome = InvalidFactor

\* The SafeResult invariant of one record.
WellFormedRecord(d) ==
    /\ d.success <=> IsNone(d.error)
    /\ d.success <=> ~IsNone(d.result)
    /\ ~d.success => (DOMAIN d.error = {"type", "message"} /\ d.error.message # "")

\* C5: every record safe_example_function returns, and so every entry
\* batch_process_values writes or returns, has success iff no error iff a
\* value; a failed record carries an error with a kind and a message.
SafeResultInvariant ==
    /\ (SafeDone /\ ReturnedRecord) => WellFormedRecord(outcome.val)
    /\ fn = "batch_process_values" =>
         \A i \in 1..Len(results) :
             ~IsNone(results[i]) => WellFormedRecord(results[i])
    /\ (BatchDone /\ ~outcome.raised) =>
         \A i \in 1..Len(outcome.val.items) : WellFormedRecord(outcome.val.items[i])

\* C5 witness: a returned batch holding a successful and a failed record.
BatchWithSuccessAndFailure ==
    /\ BatchDone /\ ~outcome.raised
    /\ \E i, j \in 1..Len(outcome.val.items) :
         /\ outcome.val.items[i].success
         /\ ~outcome.val.items[j].success

GenericError == ErrorInfo("UnexpectedError", "An unexpected error occurred")

\* C6: whenever optimized_example_function fails inside safe_example_function
\* with a failure that is neither InvalidFactor nor UnsupportedType, the
\* record has kind UnexpectedError and the generic message.
OtherFailuresAreUnexpected ==
    (SafeDone /\ ReturnedRecord /\ TransformHere.raised
        /\ TransformHere \notin {InvalidFactor, UnsupportedType})
      => outcome.val.error = GenericError

\* C6, amended: a failure whose class is not TypeError, ValueError or
\* OverflowError gives kind UnexpectedError and the generic message; a failure
\* of one of these three classes is reported with its own class and message.
OnlyUnlistedFailuresAreUnexpected ==
    (SafeDone /\ ReturnedRecord /\ TransformHere.raised) =>
        IF TransformHere.cls \in {"TypeError", "ValueError", "OverflowError"}
        THEN outcome.val.error = ErrorInfo(TransformHere.cls, TransformHere.msg)
        ELSE outcome.val.error = GenericError

\* C6 witness: a MemoryError of the repetition reported as UnexpectedError.
MemoryErrorReportedAsUnexpected ==
    /\ SafeDone /\ ReturnedRecord
    /\ TransformHere.raised /\ TransformHere.cls = "MemoryError"
    /\ outcome.val.error = GenericError

\* The sequence types among the kinds of the model.
SequenceKinds == {"list", "tuple", "str"}

\* C7: batch_process_values raises exactly when `values` is not a sequence;
\* for a sequence it returns, whatever the factor and the elements.
BatchRaisesOnlyForNonSequence ==
    BatchDone => (outcome.raised <=> input_value.type \notin SequenceKinds)

\* (C7, for lists of printable elements) batch_process_values raises exactly
\* when `values` is not a list, provided str() of every element succeeds.
BatchRaisesOnlyForNonList ==
    BatchDone =>
        (outcome.raised <=>
            \/ input_value.type # "list"
            \/ \E i \in 1..Len(input_value.items) :
                 PreviewOf(input_value.items[i], environ).raised)

Warned(what) == \E k \in 1..Len(log) : log[k] = LogRec("WARNING", what)

\* C8: for an int v and an int f >= 0, optimized_example_function returns
\* exactly v * f, and logs the warning exactly when |v * f| > 10^15.
IntegerProductExact ==
    (TransformDone /\ input_value.type = "int" /\ NonNegative(multiplier)) =>
        /\ ~outcome.raised
        /\ outcome.val = [type |-> "int", num |-> NumMul(input_value.num, multiplier.num)]
        /\ Warned("Result is very large")
             <=> AbsGreaterPow10(NumMul(input_value.num, multiplier.num), 15)

\* (C8, without the conversion limit) the same, in a runtime that formats
\* integers of any length.
IntegerProductExactUnlimited ==
    environ.maxStrDigits = 0 => IntegerProductExact

RECURSIVE Repeated(_, _)
\* The sequence s written n times, by concatenation.
Repeated(s, n) == IF n = 0 THEN <<>> ELSE s \o Repeated(s, n - 1)

\* The characters of a text short enough to write out.
Short(a)   == NumDigits(a) <= 1
Chars(t)   == Repeated(t.unit, SmallInt(t.reps))

\* C9: for a text t and an int f >= 0, optimized_example_function returns t
\* written f times, of length len(t) * f, the empty text for f = 0, and
\* completes also when len(t) * f > 10^6.
TextRepetition ==
    (TransformDone /\ input_value.type = "str" /\ NonNegative(multiplier)) =>
        /\ ~outcome.raised
        /\ outcome.val.type = "str"
        /\ StrLen(outcome.val) = NumMul(StrLen(input_value), multiplier.num)
        /\ multiplier.num.m = 0 => outcome.val = EmptyStr
        /\ (Short(input_value.reps) /\ Short(multiplier.num)) =>
              Chars(outcome.val) = Repeated(Chars(input_value), SmallInt(multiplier.num))
        /\ StrLen(outcome.val).m # 0 => outcome.val.unit = input_value.unit

\* (C9, within the runtime's limits) the same, when the factor and the length
\* fit an index, the length can be allocated and the warning can be formatted.
TextRepetitionWithinLimits ==
    (/\ TransformDone /\ input_value.type = "str" /\ NonNegative(multiplier)
     /\ ~ExceedsMaxSize(multiplier.num)
     /\ ~AbsGreaterPow10(NumMul(StrLen(input_value), multiplier.num), environ.memExp))
      => TextRepetition

\* The positions of the kinds `kinds` in xs, ascending.
RECURSIVE PositionsOf(_, _, _)
PositionsOf(xs, kinds, n) ==
    IF n = 0 THEN <<>>
    ELSE PositionsOf(xs, kinds, n - 1)
            \o (IF xs[n].type \in kinds THEN <<n>> ELSE <<>>)

ExpectedOrder(xs) ==
    PositionsOf(xs, {"int", "float"}, Len(xs))
        \o PositionsOf(xs, {"str"}, Len(xs))
        \o PositionsOf(xs, AllKinds \ {"int", "float", "str"}, Len(xs))

\* C10: within one batch_process_values call, safe_example_function is called
\* exactly once per position: the int and float elements in ascending position,
\* then the str elements, then the others.
BatchProcessingOrder ==
    (BatchDone /\ input_value.type = "list") => invoked = ExpectedOrder(input_value.items)

\* (C10, for the calls made) the calls made so far are always a prefix of that
\* order, and all of it when the call returns.
BatchProcessingOrderPrefix ==
    (fn = "batch_process_values" /\ input_value.type = "list") =>
        /\ Len(invoked) <= Len(ExpectedOrder(input_value.items))
        /\ invoked = SubSeq(ExpectedOrder(input_value.items), 1, Len(invoked))
        /\ (Done /\ ~outcome.raised) => invoked = ExpectedOrder(input_value.items)

====
